---- MODULE Spec2Model ----
(***************************************************************************)
(* Model of the STRATOS PDU controller (PDUControllerJF.py): the telemetry *)
(* parser, the per-service energy accumulation, the heater pseudo-channel, *)
(* the flight session and the battery estimate, driven by the iterations   *)
(* of the GUI event loop of main().                                        *)
(*                                                                         *)
(* Units.  Time is in whole seconds of the POSIX clock.  Currents are in   *)
(* tenths of an ampere.  Energies are kept as current * seconds * volts,   *)
(* that is Wh multiplied by WhScale = 3600 * 10, so that the code's        *)
(* amps * (delta / 3600.0) * nominal_voltage is an integer product.        *)
(* Floating-point rounding is not modelled.                                *)
(*                                                                         *)
(* A packet is the sequence of its comma-separated fields, so that         *)
(* raw_packet.split(",") is the packet itself.                             *)
(***************************************************************************)
EXTENDS Integers, Sequences, FiniteSets, TLC

\* --------------------------------------------------------------- bounds
\* The POSIX clock runs over 1..MaxTime; timestamps written in a log file
\* range over 0..MaxTime.
MaxTime == 2
\* Most lines a loaded log file holds (load_log's count).
MaxLogLines == 1
\* Most datagrams the socket delivers during a run.
MaxDatagrams == 1
\* Most datagrams in flight in each direction between controller and PDU.
MaxWire == 2

\* Datagrams received while the groups are followed.
MaxGroupDatagrams == 2

\* The last instant of the clock where the auto-refresh timer is followed.
MaxTimerTime == 4

\* ------------------------------------------------------ program constants
S1 == 0
S6 == 5
HEATERS == 6
Services == S1..S6
Slots == S1..HEATERS

nominal_voltage == 28
\* 0.9 A, in tenths of an ampere
heaters_consumption == 9
max_wh == 3750
\* 3600 s/h * 10 tenths of an ampere per ampere
WhScale == 36000

\* ------------------------------------------------------- field conversions
\* str.isdigit() and int() on the field texts the model uses.
DigitTexts == <<"0", "1", "2", "3", "4", "5", "6", "7", "8", "9">>

\* Texts of more than one digit, and the numbers they denote.
NumberTexts == <<"4000">>

NumberValues == <<4000>>

isdigit(s) ==
  \/ \E i \in 1..Len(DigitTexts) : DigitTexts[i] = s
  \/ \E i \in 1..Len(NumberTexts) : NumberTexts[i] = s

int(s) ==
  IF \E i \in 1..Len(DigitTexts) : DigitTexts[i] = s
  THEN (CHOOSE i \in 1..Len(DigitTexts) : DigitTexts[i] = s) - 1
  ELSE NumberValues[CHOOSE i \in 1..Len(NumberTexts) : NumberTexts[i] = s]

\* datetime.isoformat(): the text of the instant t.
IsoTexts == <<"T0", "T1", "T2", "T3", "T4", "T5", "T6", "T7", "T8", "T9">>

isoformat(t) == IsoTexts[t + 1]

\* datetime.fromisoformat(s).timestamp(); any other text raises ValueError.
IsIso(s) == \E i \in 1..Len(IsoTexts) : IsoTexts[i] = s

fromisoformat(s) == (CHOOSE i \in 1..Len(IsoTexts) : IsoTexts[i] = s) - 1

\* float() on the decimal texts of a STATUS reply, in tenths of an ampere;
\* any other text raises ValueError.
AmpTexts == <<"0.500", "1.000", "8.100">>

AmpValues == <<5, 10, 81>>

IsFloat(s) == \E i \in 1..Len(AmpTexts) : AmpTexts[i] = s

float(s) == AmpValues[CHOOSE i \in 1..Len(AmpTexts) : AmpTexts[i] = s]

\* str.strip() on the last field of a line: the texts that end in white
\* space, and what is left of them; any other text is kept.
PaddedTexts == <<"1\n">>

StrippedTexts == <<"1">>

strip(line) ==
  IF line # <<>> /\ \E i \in 1..Len(PaddedTexts) :
                       PaddedTexts[i] = line[Len(line)]
  THEN [line EXCEPT ![Len(line)] =
          StrippedTexts[CHOOSE i \in 1..Len(PaddedTexts) :
                          PaddedTexts[i] = line[Len(line)]]]
  ELSE line

\* ------------------------------------------------------------ parse_telemetry
\* The globals parse_telemetry reads and writes, with what the call reports:
\* warnings (the log.warning calls) and raised (an exception left the call).
\* Variant: the warning is lost.
WarnLost(st, msg) == st

Warn(st, msg) == [st EXCEPT !.warnings = Append(@, msg)]

Raise(st) == [st EXCEPT !.raised = TRUE]

\* Wh added for current amps over delta seconds (scaled by WhScale).
Energy(amps, delta) == amps * delta * nominal_voltage

EventPacket(st, packet, time_of_reception) ==
  IF Len(packet) < 4 THEN Raise(st)
  ELSE IF packet[4] = "START_FLIGHT" THEN
    [st EXCEPT !.in_flight = TRUE,
               !.last_update_time[HEATERS] = time_of_reception]
  ELSE IF packet[4] = "END_FLIGHT" /\ st.last_update_time[HEATERS] > 0 THEN
    LET delta == time_of_reception - st.last_update_time[HEATERS]
    IN [st EXCEPT !.in_flight = FALSE,
                  !.accumulated_Wh[HEATERS] =
                     IF delta > 0 THEN @ + Energy(heaters_consumption, delta)
                     ELSE @,
                  !.last_update_time[HEATERS] = 0]
  ELSE st

\* Variant: a service id that names no service is taken as service 1.
SrvcsetAnyId(st, packet) ==
  IF Len(packet) < 5 THEN Warn(st, "SRVCSET packet error - Too short")
  ELSE [st EXCEPT !.is_on[IF isdigit(packet[4]) /\ int(packet[4]) >= 1
                             /\ int(packet[4]) <= 6
                          THEN int(packet[4]) - 1 ELSE S1] = (packet[5] = "1")]

\* Variant: a confirmation flips is_on instead of setting it.
SrvcsetFlips(st, packet) ==
  IF Len(packet) < 5 THEN Warn(st, "SRVCSET packet error - Too short")
  ELSE IF isdigit(packet[4]) THEN
         IF int(packet[4]) >= 1 /\ int(packet[4]) <= 6 THEN
           [st EXCEPT !.is_on[int(packet[4]) - 1] = ~@]
         ELSE Warn(st, "Service index out of range for SRVCSET received")
       ELSE Warn(st, "Bad service index for SRVCSET received")

\* Variant: the controller keeps its own guess and ignores confirmations.
SrvcsetIgnored(st, packet) == st

SrvcsetPacket(st, packet) ==
  IF Len(packet) < 5 THEN Warn(st, "SRVCSET packet error - Too short")
  ELSE LET service_id == packet[4]
           service_state == packet[5]
       IN IF isdigit(service_id) THEN
            IF int(service_id) >= 1 /\ int(service_id) <= 6 THEN
              [st EXCEPT !.is_on[int(service_id) - 1] = (service_state = "1")]
            ELSE Warn(st, "Service index out of range for SRVCSET received")
          ELSE Warn(st, "Bad service index for SRVCSET received")

\* Variant: a sample also restarts the heater's interval.
StatusSampleAndHeater(st, index, amps, time_of_reception) ==
  LET delta == time_of_reception - st.last_update_time[index]
  IN [st EXCEPT !.current[index] = amps,
                !.accumulated_Wh[index] =
                   IF st.last_update_time[index] > 0
                   THEN @ + Energy(amps, delta) ELSE @,
                !.last_update_time[index] = time_of_reception,
                !.last_update_time[HEATERS] = time_of_reception]

\* Variant: one time of the last sample is kept for all the services.
StatusSampleOneClock(st, index, amps, time_of_reception) ==
  LET delta == time_of_reception - st.last_update_time[index]
  IN [st EXCEPT !.current[index] = amps,
                !.accumulated_Wh[index] =
                   IF st.last_update_time[index] > 0
                   THEN @ + Energy(amps, delta) ELSE @,
                !.last_update_time =
                   [o \in DOMAIN @ |-> IF o = HEATERS THEN @[o]
                                       ELSE time_of_reception]]

StatusSample(st, index, amps, time_of_reception) ==
  LET delta == time_of_reception - st.last_update_time[index]
  IN [st EXCEPT !.current[index] = amps,
                !.accumulated_Wh[index] =
                   IF st.last_update_time[index] > 0
                   THEN @ + Energy(amps, delta) ELSE @,
                !.last_update_time[index] = time_of_reception]

\* Variant: a service id that names no service is taken as service 1.
StatusAnyId(st, packet, time_of_reception) ==
  IF Len(packet) < 5 THEN Warn(st, "STATUS packet error - Too short")
  ELSE IF IsFloat(packet[5])
       THEN StatusSample(st,
                         IF isdigit(packet[4]) /\ int(packet[4]) >= 1
                            /\ int(packet[4]) <= 6
                         THEN int(packet[4]) - 1 ELSE S1,
                         float(packet[5]), time_of_reception)
       ELSE Raise(st)

\* Variant: a STATUS reply without its value is a sample of no current.
StatusShortAsZero(st, packet, time_of_reception) ==
  IF Len(packet) < 4 THEN Warn(st, "STATUS packet error - Too short")
  ELSE LET service_id == packet[4]
       IN IF isdigit(service_id) THEN
            IF int(service_id) >= 1 /\ int(service_id) <= 6 THEN
              IF Len(packet) < 5
              THEN StatusSample(st, int(service_id) - 1, 0,
                                time_of_reception)
              ELSE IF IsFloat(packet[5])
              THEN StatusSample(st, int(service_id) - 1, float(packet[5]),
                                time_of_reception)
              ELSE Raise(st)
            ELSE Warn(st, "Service index out of range for STATUS received")
          ELSE Warn(st, "Bad service index for STATUS received")

StatusPacket(st, packet, time_of_reception) ==
  IF Len(packet) < 5 THEN Warn(st, "STATUS packet error - Too short")
  ELSE LET service_id == packet[4]
           value == packet[5]
       IN IF isdigit(service_id) THEN
            IF int(service_id) >= 1 /\ int(service_id) <= 6 THEN
              IF IsFloat(value)
              THEN StatusSample(st, int(service_id) - 1, float(value),
                                time_of_reception)
              ELSE Raise(st)
            ELSE Warn(st, "Service index out of range for STATUS received")
          ELSE Warn(st, "Bad service index for STATUS received")

\* Variant: a timestamp that does not decode leaves the time unset.
StampOrUnset(packet, utcnow) ==
  IF IsIso(packet[2]) THEN fromisoformat(packet[2]) ELSE 0

\* Lines 692-696: the packet's timestamp, or the clock utcnow at the call
\* when the field does not decode.
TimeOfReception(packet, utcnow) ==
  IF IsIso(packet[2]) THEN fromisoformat(packet[2]) ELSE utcnow

\* Variant: the source of the packet is not looked at.
parse_any_source(st, packet, utcnow) ==
  IF Len(packet) < 3 THEN Warn(st, "TM packet too short")
  ELSE LET time_of_reception == TimeOfReception(packet, utcnow)
           st1 == IF IsIso(packet[2]) THEN st
                  ELSE Warn(st, "ERROR: timestamp could not be decoded")
       IN IF packet[3] = "EVENT"
            THEN EventPacket(st1, packet, time_of_reception)
          ELSE IF packet[3] = "SRVCSET" THEN SrvcsetPacket(st1, packet)
          ELSE IF packet[3] = "STATUS"
            THEN StatusPacket(st1, packet, time_of_reception)
          ELSE st1

\* Variant: a header of the PDU that is neither SRVCSET nor STATUS is
\* flagged by a warning.
parse_flagging_rest(st, packet, utcnow) ==
  IF Len(packet) < 3 THEN Warn(st, "TM packet too short")
  ELSE LET source == packet[1]
           time_of_reception == TimeOfReception(packet, utcnow)
           st1 == IF IsIso(packet[2]) THEN st
                  ELSE Warn(st, "ERROR: timestamp could not be decoded")
           header == packet[3]
       IN IF source # "PDU" THEN
            IF header = "EVENT"
            THEN EventPacket(st1, packet, time_of_reception)
            ELSE st1
          ELSE IF header = "SRVCSET" THEN SrvcsetPacket(st1, packet)
          ELSE IF header = "STATUS"
            THEN StatusPacket(st1, packet, time_of_reception)
          ELSE Warn(st1, "Unexpected header")

parse_telemetry(st, packet, utcnow) ==
  IF Len(packet) < 3 THEN Warn(st, "TM packet too short")
  ELSE LET source == packet[1]
           time_of_reception == TimeOfReception(packet, utcnow)
           st1 == IF IsIso(packet[2]) THEN st
                  ELSE Warn(st, "ERROR: timestamp could not be decoded")
           header == packet[3]
       IN IF source # "PDU" THEN
            IF header = "EVENT" THEN EventPacket(st1, packet, time_of_reception)
            ELSE st1
          ELSE IF header = "SRVCSET" THEN SrvcsetPacket(st1, packet)
          ELSE IF header = "STATUS"
            THEN StatusPacket(st1, packet, time_of_reception)
          ELSE st1

\* --------------------------------------------- refresh_telemetry_stats_on_gui
\* The text of the '-OFFSET_WH-' field and the number of Wh it denotes.
OffsetTexts == <<"", "5", "-5", "4000">>

OffsetValues == <<0, 5, -5, 4000>>

OffsetWh(s) == OffsetValues[CHOOSE i \in 1..Len(OffsetTexts) : OffsetTexts[i] = s]

\* offset as lines 874-877 compute it: taken only when the text isdigit().
offset(vals) ==
  IF vals.OFFSET_WH # "" /\ isdigit(vals.OFFSET_WH)
  THEN int(vals.OFFSET_WH) * WhScale ELSE 0

total_used(out, vals) ==
  out.accumulated_Wh[0] + out.accumulated_Wh[1] + out.accumulated_Wh[2]
  + out.accumulated_Wh[3] + out.accumulated_Wh[4] + out.accumulated_Wh[5]
  + out.accumulated_Wh[HEATERS] + offset(vals)

\* battery['progress_wh'], scaled by WhScale.
progress_wh(out, vals) == max_wh * WhScale - total_used(out, vals)

\* The texts of the '-GR1_LIMIT_WH-' and '-GR2_LIMIT_WH-' fields the model
\* uses and float() of them, in Wh scaled by WhScale (0.005 Wh is 180).
LimitTexts == <<"0", "-1", "0.005", "0.07">>

LimitValues == <<0, -36000, 180, 2520>>

limit(s) == LimitValues[CHOOSE i \in 1..Len(LimitTexts) : LimitTexts[i] = s]

\* Variant: the checkboxes are not looked at, every service is summed.
group_of_all(out, members) ==
  [A |-> out.current[0] + out.current[1] + out.current[2]
         + out.current[3] + out.current[4] + out.current[5],
   Wh |-> out.accumulated_Wh[0] + out.accumulated_Wh[1]
          + out.accumulated_Wh[2] + out.accumulated_Wh[3]
          + out.accumulated_Wh[4] + out.accumulated_Wh[5]]

\* Lines 798-817 and 830-849: the group's A and Wh, set to zero and summed
\* over the services whose checkbox of the group is ticked.
group_totals(out, members) ==
  [A |-> (IF S1 \in members THEN out.current[0] ELSE 0)
         + (IF 1 \in members THEN out.current[1] ELSE 0)
         + (IF 2 \in members THEN out.current[2] ELSE 0)
         + (IF 3 \in members THEN out.current[3] ELSE 0)
         + (IF 4 \in members THEN out.current[4] ELSE 0)
         + (IF S6 \in members THEN out.current[5] ELSE 0),
   Wh |-> (IF S1 \in members THEN out.accumulated_Wh[0] ELSE 0)
          + (IF 1 \in members THEN out.accumulated_Wh[1] ELSE 0)
          + (IF 2 \in members THEN out.accumulated_Wh[2] ELSE 0)
          + (IF 3 \in members THEN out.accumulated_Wh[3] ELSE 0)
          + (IF 4 \in members THEN out.accumulated_Wh[4] ELSE 0)
          + (IF S6 \in members THEN out.accumulated_Wh[5] ELSE 0)]

\* Variant: the difference must be under the threshold, not equal to it.
limit_colour_under(colour, lim, Wh) ==
  IF lim > 0
  THEN IF 10 * (lim - Wh) < lim THEN "red" ELSE "white"
  ELSE colour

\* Lines 820-828 and 852-860: the background colour of the group's Wh and
\* limit fields, colour being what it was.  threshold = limit * 0.1, so
\* limit - Wh <= threshold is written 10 * (limit - Wh) <= limit.
limit_colour(colour, lim, Wh) ==
  IF lim > 0
  THEN IF 10 * (lim - Wh) <= lim THEN "red" ELSE "white"
  ELSE colour

\* Variant: the quotient is rounded down.
int_rounding_down(n, d) == n \div d

\* Python's int() of the quotient n / d, d > 0: truncation towards zero.
int_of_quotient(n, d) ==
  IF n >= 0 THEN n \div d ELSE -((-n) \div d)

\* Line 881: int(progress_wh / max_wh * 100.0).  max_wh * WhScale is a
\* multiple of 100, so the quotient is wh over a hundredth of it.
battery_percent(wh) == int_of_quotient(wh, (max_wh * WhScale) \div 100)

\* Lines 883-888: the value given to the progress bar
update_bar(percent) ==
  IF percent > 100 THEN 100
  ELSE IF percent < 0 THEN 0
  ELSE percent

\* The globals battery, group1 and group2 and the elements of the window
\* after the call, win being the elements before it.  The limit fields
\* hold numbers.
refresh_telemetry_stats_on_gui(out, vals, win) ==
  LET g1 == group_totals(out, vals.GR1)
      g2 == group_totals(out, vals.GR2)
      wh == progress_wh(out, vals)
  IN [battery |-> [progress_wh |-> wh],
      group1 |-> g1,
      group2 |-> g2,
      window |-> [GR1_WH |-> limit_colour(win.GR1_WH,
                                          limit(vals.GR1_LIMIT_WH), g1.Wh),
                  GR2_WH |-> limit_colour(win.GR2_WH,
                                          limit(vals.GR2_LIMIT_WH), g2.Wh),
                  BATTERY_PERCENT |-> <<battery_percent(wh)>>,
                  BATTERY_PROGRESS |-> <<update_bar(battery_percent(wh))>>]]

\* ------------------------------------------------------------------- state
VARIABLES
  in_flight,              \* global in_flight
  output,                 \* global output: current, last_update_time,
                          \*   accumulated_Wh, is_on
  battery,                \* global battery: progress_wh
  group1,                 \* global group1: A, Wh
  group2,                 \* global group2: A, Wh
  window,                 \* elements of the window: the background colour
                          \*   of the groups' Wh fields, the battery percent
                          \*   text and progress bar (<<>>: never updated)
  now,                    \* datetime.utcnow().timestamp()
  start,                  \* start of the auto-refresh delay
  is_first_refresh_done,
  values,                 \* values returned by window.read: the field texts
  rx,                     \* outcome of the last socket read: "none",
                          \*   "parsed" or "raised"
  sent,                   \* commands sent by the last iteration
  warnings,               \* log.warning calls of the last iteration
  loading,                \* load_log is reading a file
  count,                  \* load_log's count of lines read
  datagrams,              \* datagrams delivered so far
  proc,                   \* "running", or "crashed" by an uncaught exception
  \* History of the run, read by the properties only:
  request,                \* flight transition the latest step asked for
  session_start,          \* instant of the latest request to start a flight
  sampled,                \* per service: STATUS samples taken, the first's time
  raw_packet,             \* packet the latest step gave to parse_telemetry
  event,                  \* event the latest step's window.read returned (""
                          \*   when the step is no iteration of the loop)
  \* The PDU and the datagrams between it and the controller:
  pdu_on,                 \* the PDU's outputs
  to_pdu,                 \* commands sent, not yet received by the PDU
  from_pdu                \* replies sent, not yet read from the socket

vars == <<in_flight, output, battery, group1, group2, window, now, start,
         is_first_refresh_done,
          values, rx, sent, warnings, loading, count, datagrams, proc,
          request, session_start, sampled, raw_packet, event,
          pdu_on, to_pdu, from_pdu>>

\* --------------------------------------------------------------- inputs
\* Texts of the '-AUTOREFRESH-' field
AutoRefreshTexts == {"0", "1", ""}

\* Service-id fields of a reply: in range, out of range, not numeric.
IdFields == {"0", "1", "6", "7", "x"}

AmpFields == {"0.500", "1.000", "abc"}

\* Datagrams the PDU (or anyone else) can send to the socket.
Datagrams ==
  {<<"STATUS", i, a>> : i \in IdFields, a \in AmpFields}
  \cup {<<"SRVCSET", i, s>> : i \in IdFields, s \in {"0", "1"}}
  \cup {<<"SRVCSET", "1", "2">>}
  \cup {<<"STATUS">>, <<"SRVCSET">>}
  \cup {<<"STATUS", "1">>, <<"SRVCSET", "1">>, <<"CMDERROR">>,
        <<"EVENT", "START_FLIGHT">>, <<"EVENT", "END_FLIGHT">>}

\* Timestamp fields of a log line: an instant, or an undecodable text.
StampFields == {isoformat(t) : t \in 0..MaxTime} \cup {"bad"}

\* Lines of a log file: received packets, logged events and commands, and
\* damaged lines.
LogLines ==
  {<<"PDU", ts>> \o d : ts \in StampFields, d \in Datagrams}
  \cup {<<"GND", ts, "EVENT", n>> :
          ts \in StampFields, n \in {"START_FLIGHT", "END_FLIGHT", "OTHER"}}
  \cup {<<"GND", ts, "EVENT">> : ts \in StampFields}
  \cup {<<"GND", ts, "STATUS", "1">> : ts \in StampFields}
  \cup {<<"GND", ts, "STATUS", "1", "0.500">> : ts \in StampFields}
  \cup {<<"GND", ts, "SRVCSET", "1", "1">> : ts \in StampFields}
  \cup {<<"PDU", "bad">>, <<"">>}

\* ------------------------------------------------------------------ history
NoRequest == [kind |-> "none", at |-> 0]

\* The flight transition a packet asks for (lines 699-707, 709).
RequestOf(packet, utcnow) ==
  IF /\ Len(packet) >= 4
     /\ packet[1] # "PDU"
     /\ packet[3] = "EVENT"
     /\ packet[4] \in {"START_FLIGHT", "END_FLIGHT"}
  THEN [kind |-> IF packet[4] = "START_FLIGHT" THEN "START" ELSE "END",
        at |-> TimeOfReception(packet, utcnow)]
  ELSE NoRequest

SessionStartAfter(req) ==
  IF req.kind = "START" THEN req.at ELSE session_start

\* The packet is a STATUS reply that parse_telemetry takes as a sample
\* (lines 699, 733-742).
IsSample(packet) ==
  /\ Len(packet) >= 5
  /\ packet[1] = "PDU"
  /\ packet[3] = "STATUS"
  /\ isdigit(packet[4])
  /\ int(packet[4]) >= 1
  /\ int(packet[4]) <= 6
  /\ IsFloat(packet[5])

SampledAfter(packet, utcnow) ==
  IF IsSample(packet)
  THEN [sampled EXCEPT ![int(packet[4]) - 1] =
          [n |-> @.n + 1,
           first |-> IF @.n = 0 THEN TimeOfReception(packet, utcnow)
                     ELSE @.first]]
  ELSE sampled

\* Variant: the controller takes service 1 as on when it starts.
InitControllerOn ==
  /\ in_flight = FALSE
  /\ output = [current |-> [i \in Services |-> 0],
               last_update_time |-> [i \in Slots |-> 0],
               accumulated_Wh |-> [i \in Slots |-> 0],
               is_on |-> [i \in Services |-> i = S1]]
  /\ battery = [progress_wh |-> max_wh * WhScale]
  /\ group1 = [A |-> 0, Wh |-> 0]
  /\ group2 = [A |-> 0, Wh |-> 0]
  /\ window = [GR1_WH |-> "default", GR2_WH |-> "default",
               BATTERY_PERCENT |-> <<>>, BATTERY_PROGRESS |-> <<>>]
  /\ now = 1
  /\ start = 1
  /\ is_first_refresh_done = FALSE
  /\ values \in [OFFSET_WH : {""}, AUTOREFRESH : {"0", ""},
                  GR1 : {{}}, GR2 : {{}},
                  GR1_LIMIT_WH : {"0"}, GR2_LIMIT_WH : {"0"}]
  /\ rx = "none"
  /\ sent = <<>>
  /\ warnings = <<>>
  /\ loading = FALSE
  /\ count = 0
  /\ datagrams = 0
  /\ proc = "running"
  /\ request = NoRequest
  /\ session_start = 0
  /\ sampled = [i \in Services |-> [n |-> 0, first |-> 0]]
  /\ raw_packet = <<>>
  /\ event = ""

\* ------------------------------------------------------------------- Init
\* The globals of the module and of main() before the loop (lines 317-330).
InitController ==
  /\ in_flight = FALSE
  /\ output = [current |-> [i \in Services |-> 0],
               last_update_time |-> [i \in Slots |-> 0],
               accumulated_Wh |-> [i \in Slots |-> 0],
               is_on |-> [i \in Services |-> FALSE]]
  /\ battery = [progress_wh |-> max_wh * WhScale]
  /\ group1 = [A |-> 0, Wh |-> 0]
  /\ group2 = [A |-> 0, Wh |-> 0]
  /\ window = [GR1_WH |-> "default", GR2_WH |-> "default",
               BATTERY_PERCENT |-> <<>>, BATTERY_PROGRESS |-> <<>>]
  /\ now = 1
  /\ start = 1
  /\ is_first_refresh_done = FALSE
  /\ values \in [OFFSET_WH : {""}, AUTOREFRESH : {"0", ""},
                  GR1 : {{}}, GR2 : {{}},
                  GR1_LIMIT_WH : {"0"}, GR2_LIMIT_WH : {"0"}]
  /\ rx = "none"
  /\ sent = <<>>
  /\ warnings = <<>>
  /\ loading = FALSE
  /\ count = 0
  /\ datagrams = 0
  /\ proc = "running"
  /\ request = NoRequest
  /\ session_start = 0
  /\ sampled = [i \in Services |-> [n |-> 0, first |-> 0]]
  /\ raw_packet = <<>>
  /\ event = ""

\* The controller starts with every output of the PDU off.
Init ==
  /\ InitController
  /\ pdu_on = [i \in Services |-> FALSE]
  /\ to_pdu = <<>>
  /\ from_pdu = <<>>

\* The globals as parse_telemetry's argument, and back.
Globals ==
  [in_flight |-> in_flight,
   current |-> output.current,
   last_update_time |-> output.last_update_time,
   accumulated_Wh |-> output.accumulated_Wh,
   is_on |-> output.is_on,
   warnings |-> <<>>,
   raised |-> FALSE]

OutputOf(st) ==
  [current |-> st.current,
   last_update_time |-> st.last_update_time,
   accumulated_Wh |-> st.accumulated_Wh,
   is_on |-> st.is_on]

\* ------------------------------------------------------------ the event loop
\* One iteration of the loop of main() begins: window.read returns; the
\* first iteration refreshes the GUI before it handles its event.
Read ==
  /\ proc = "running"
  /\ ~loading
  /\ is_first_refresh_done' = TRUE

Refreshed(R) ==
  /\ battery' = R.battery
  /\ group1' = R.group1
  /\ group2' = R.group2
  /\ window' = R.window

FirstRefresh(v) ==
  IF is_first_refresh_done THEN UNCHANGED <<battery, group1, group2, window>>
  ELSE Refreshed(refresh_telemetry_stats_on_gui(output, v, window))

\* str(service number) of the service at index c
ServiceText(c) == DigitTexts[c + 2]

\* send_refresh_all: one STATUS command per service
send_refresh_all == [i \in 1..6 |-> <<"STATUS", DigitTexts[i + 1]>>]

\* Variant: the delay is not compared with the text of the field.
AutoRefreshAlways == isdigit(values.AUTOREFRESH)

\* Lines 429-432: the auto-refresh delay has expired.
AutoRefreshDue ==
  /\ isdigit(values.AUTOREFRESH)
  /\ now - start >= int(values.AUTOREFRESH)

\* Variant: the heater accumulates whether the flight is on or not.
HeaterTickIdle(out) ==
  LET last == out.last_update_time[HEATERS]
      delta == now - last
  IN [out EXCEPT
        !.accumulated_Wh[HEATERS] =
           IF last > 0 /\ delta > 0
           THEN @ + Energy(heaters_consumption, delta) ELSE @,
        !.last_update_time[HEATERS] = now]

\* Lines 439-444: the heater's accumulation when the auto-refresh fires.
HeaterTick(out) ==
  IF in_flight THEN
    LET last == out.last_update_time[HEATERS]
        delta == now - last
    IN [out EXCEPT
          !.accumulated_Wh[HEATERS] =
             IF last > 0 /\ delta > 0
             THEN @ + Energy(heaters_consumption, delta) ELSE @,
          !.last_update_time[HEATERS] = now]
  ELSE out

NoData == <<>>

\* log.rx: the received text behind the standard header
\* Variant: a datagram that names its own source is taken as it was sent.
LogRxAsSent(d) ==
  IF Len(d) >= 3 /\ d[1] = "GND" THEN d ELSE <<"PDU", isoformat(now)>> \o d

LogRx(d) == <<"PDU", isoformat(now)>> \o d

\* event == sg.TIMEOUT_EVENT: auto refresh, then one read of the socket
\* (d = NoData: the read timed out); the socket delivers at most `most`
\* datagrams.
TimeoutWithin(d, most) ==
  /\ Read
  /\ d # NoData => datagrams < most
  /\ LET due == AutoRefreshDue
         out1 == IF due THEN HeaterTick(output) ELSE output
         st == parse_telemetry([Globals EXCEPT
                                  !.current = out1.current,
                                  !.last_update_time = out1.last_update_time,
                                  !.accumulated_Wh = out1.accumulated_Wh],
                               LogRx(d), now)
     IN /\ start' = IF due THEN now ELSE start
        /\ sent' = IF due THEN send_refresh_all ELSE <<>>
        /\ IF d = NoData
           THEN /\ output' = out1
                /\ rx' = "none"
                /\ warnings' = <<>>
                /\ FirstRefresh(values)
                /\ request' = NoRequest
                /\ raw_packet' = <<>>
                /\ UNCHANGED <<in_flight, datagrams, session_start, sampled>>
           ELSE /\ output' = OutputOf(st)
                /\ in_flight' = st.in_flight
                /\ warnings' = st.warnings
                /\ datagrams' = datagrams + 1
                /\ rx' = IF st.raised THEN "raised" ELSE "parsed"
                /\ IF st.raised THEN FirstRefresh(values)
                   ELSE Refreshed(refresh_telemetry_stats_on_gui(
                          OutputOf(st), values,
                          IF is_first_refresh_done THEN window
                          ELSE refresh_telemetry_stats_on_gui(
                                 output, values, window).window))
                /\ request' = RequestOf(LogRx(d), now)
                /\ raw_packet' = LogRx(d)
                /\ session_start' = SessionStartAfter(request')
                /\ sampled' = SampledAfter(LogRx(d), now)
  /\ event' = "__TIMEOUT__"
  /\ UNCHANGED <<now, values, loading, count, proc>>

Timeout(d) == TimeoutWithin(d, MaxDatagrams)

\* event == '-FLIGHT_TOGGLE-'
FlightToggle ==
  /\ Read
  /\ IF in_flight
     THEN /\ in_flight' = FALSE
          /\ output' = [output EXCEPT !.last_update_time[HEATERS] = now]
          /\ request' = [kind |-> "END", at |-> now]
     ELSE /\ in_flight' = TRUE
          /\ request' = [kind |-> "START", at |-> now]
          /\ UNCHANGED output
  /\ session_start' = SessionStartAfter(request')
  /\ raw_packet' = <<>>
  /\ FirstRefresh(values)
  /\ rx' = "none"
  /\ sent' = <<>>
  /\ warnings' = <<>>
  /\ event' = "-FLIGHT_TOGGLE-"
  /\ UNCHANGED <<pdu_on, to_pdu, from_pdu,
                 now, start, values, loading, count, datagrams, proc,
                 sampled>>

\* The events of the service buttons: str(service number) is ServiceText.
ToggleEvent(c) == "-S" \o ServiceText(c) \o "TOGGLE-"

RefreshEvent(c) == "-S" \o ServiceText(c) \o "REFRESH-"

\* An iteration that handles the button event b: it sends commands and
\* changes no global.
SendOnly(b, cmds) ==
  /\ Read
  /\ sent' = cmds
  /\ event' = b
  /\ FirstRefresh(values)
  /\ rx' = "none"
  /\ warnings' = <<>>
  /\ request' = NoRequest
  /\ raw_packet' = <<>>
  /\ UNCHANGED <<in_flight, output, now, start, values, loading, count,
                 datagrams, proc, session_start, sampled>>

\* Variant: the toggle button always asks for ON.
ServiceToggleOn(c) ==
  SendOnly(ToggleEvent(c), << <<"SETSRVC", ServiceText(c), "1">> >>)

\* event == '-S1TOGGLE-' .. '-S6TOGGLE-'
ServiceToggle(c) ==
  SendOnly(ToggleEvent(c),
           << <<"SETSRVC", ServiceText(c),
                IF output.is_on[c] THEN "0" ELSE "1">> >>)

\* Variant: the refresh button sends its command twice.
ServiceRefreshTwice(c) ==
  SendOnly(RefreshEvent(c),
           << <<"STATUS", ServiceText(c)>>, <<"STATUS", ServiceText(c)>> >>)

\* event == '-S1REFRESH-' .. '-S6REFRESH-'
ServiceRefresh(c) ==
  SendOnly(RefreshEvent(c), << <<"STATUS", ServiceText(c)>> >>)

\* event == '-REFRESHALL-'
RefreshAll == SendOnly("-REFRESHALL-", send_refresh_all)

\* event == '-AUTOREFRESH-': the field was edited to text s
AutoRefreshEdited(s) ==
  /\ Read
  /\ s # values.AUTOREFRESH
  /\ values' = [values EXCEPT !.AUTOREFRESH = s]
  /\ FirstRefresh(values')
  /\ rx' = "none"
  /\ sent' = <<>>
  /\ warnings' = <<>>
  /\ request' = NoRequest
  /\ raw_packet' = <<>>
  /\ event' = "-AUTOREFRESH-"
  /\ UNCHANGED <<pdu_on, to_pdu, from_pdu,
                 in_flight, output, now, start, loading, count, datagrams,
                 proc, session_start, sampled>>

\* The operator types s in the '-OFFSET_WH-' field, which raises no event:
\* the next window.read returns it.
OffsetTyped(s) ==
  /\ proc = "running"
  /\ ~loading
  /\ s # values.OFFSET_WH
  /\ values' = [values EXCEPT !.OFFSET_WH = s]
  /\ request' = NoRequest
  /\ raw_packet' = <<>>
  /\ event' = ""
  /\ UNCHANGED <<pdu_on, to_pdu, from_pdu,
                 in_flight, output, battery, group1, group2, window, now,
                 start,
                 is_first_refresh_done, rx, sent, warnings, loading, count,
                 datagrams, proc, session_start, sampled>>

\* The operator types s in the limit field of group g ('-GR1_LIMIT_WH-',
\* '-GR2_LIMIT_WH-'), which raises no event either.
LimitTyped(g, s) ==
  /\ proc = "running"
  /\ ~loading
  /\ s # values[g]
  /\ values' = [values EXCEPT ![g] = s]
  /\ request' = NoRequest
  /\ raw_packet' = <<>>
  /\ event' = ""
  /\ UNCHANGED <<pdu_on, to_pdu, from_pdu,
                 in_flight, output, battery, group1, group2, window, now,
                 start, is_first_refresh_done, rx, sent, warnings, loading,
                 count, datagrams, proc, session_start, sampled>>

\* The event of the checkbox of service c for group g ("GR1", "GR2").
GroupEvent(g, c) == "-S" \o ServiceText(c) \o g \o "-"

\* event == '-S1GR1-' .. '-S6GR2-': the operator ticked or cleared the
\* checkbox; the last branch of the loop copies the checkboxes to the
\* services and refreshes nothing.
GroupClicked(g, c) ==
  /\ Read
  /\ values' = [values EXCEPT
                  ![g] = IF c \in @ THEN @ \ {c} ELSE @ \cup {c}]
  /\ FirstRefresh(values')
  /\ rx' = "none"
  /\ sent' = <<>>
  /\ warnings' = <<>>
  /\ request' = NoRequest
  /\ raw_packet' = <<>>
  /\ event' = GroupEvent(g, c)
  /\ UNCHANGED <<pdu_on, to_pdu, from_pdu,
                 in_flight, output, now, start, loading, count, datagrams,
                 proc, session_start, sampled>>

\* event == '-LOG_FILE_SET-', with a file that holds data and the answer
\* YES-LOAD: Logger.set_filename calls load_log.
LogFileSet ==
  /\ Read
  /\ count < MaxLogLines
  /\ loading' = TRUE
  /\ FirstRefresh(values)
  /\ rx' = "none"
  /\ sent' = <<>>
  /\ warnings' = <<>>
  /\ request' = NoRequest
  /\ raw_packet' = <<>>
  /\ event' = "-LOG_FILE_SET-"
  /\ UNCHANGED <<pdu_on, to_pdu, from_pdu,
                 in_flight, output, now, start, values, count, datagrams,
                 proc, session_start, sampled>>

\* load_log: one line read, stripped and parsed; an exception of
\* parse_telemetry is caught nowhere and ends the program.  raw_packet
\* is the line as read.
LoadLine(line) ==
  /\ proc = "running"
  /\ loading
  /\ count < MaxLogLines
  /\ LET st == parse_telemetry(Globals, strip(line), now)
     IN /\ output' = OutputOf(st)
        /\ in_flight' = st.in_flight
        /\ warnings' = st.warnings
        /\ proc' = IF st.raised THEN "crashed" ELSE "running"
  /\ count' = count + 1
  /\ request' = RequestOf(strip(line), now)
  /\ raw_packet' = line
  /\ session_start' = SessionStartAfter(request')
  /\ sampled' = SampledAfter(strip(line), now)
  /\ event' = ""
  /\ UNCHANGED <<pdu_on, to_pdu, from_pdu,
                 battery, group1, group2, window, now, start,
                 is_first_refresh_done, values, rx,
                 sent, datagrams, loading>>

\* load_log: readline returns the empty string
EndOfLog ==
  /\ proc = "running"
  /\ loading
  /\ loading' = FALSE
  /\ request' = NoRequest
  /\ raw_packet' = <<>>
  /\ event' = ""
  /\ UNCHANGED <<pdu_on, to_pdu, from_pdu,
                 in_flight, output, battery, group1, group2, window, now,
                 start,
                 is_first_refresh_done, values, rx, sent, warnings, count,
                 datagrams, proc, session_start, sampled>>

\* datetime.utcnow() advances, up to the instant last
Tick(last) ==
  /\ proc = "running"
  /\ ~loading
  /\ now < last
  /\ now' = now + 1
  /\ request' = NoRequest
  /\ raw_packet' = <<>>
  /\ event' = ""
  /\ UNCHANGED <<pdu_on, to_pdu, from_pdu,
                 in_flight, output, battery, group1, group2, window, start,
                 is_first_refresh_done,
                 values, rx, sent, warnings, loading, count, datagrams, proc,
                 session_start, sampled>>

ClockTick == Tick(MaxTime)

\* No PDU is listening and none replies: what the loop sends is lost.
NoPdu == UNCHANGED <<pdu_on, to_pdu, from_pdu>>

\* One iteration on the timeout event, the socket delivering any datagram.
TimeoutAlone(d) == Timeout(d) /\ NoPdu

\* The telemetry and flight-session part of the loop: the iterations that
\* only send commands change none of its variables and are left out.  The
\* socket delivers any datagram, whoever sent it.
Next ==
  \/ \E d \in Datagrams \cup {NoData} : TimeoutAlone(d)
  \/ FlightToggle
  \/ \E s \in {"0", ""} : AutoRefreshEdited(s)
  \/ LogFileSet
  \/ \E line \in LogLines : LoadLine(line)
  \/ EndOfLog
  \/ ClockTick

Spec == Init /\ [][Next]_vars

\* The battery estimate: the loop with the operator typing in the offset
\* field, and replies for one service.
BatteryDatagrams == {<<"STATUS", "1", a>> : a \in {"0.500", "1.000"}}

NextBattery ==
  \/ \E d \in BatteryDatagrams \cup {NoData} : TimeoutAlone(d)
  \/ \E i \in 1..Len(OffsetTexts) : OffsetTyped(OffsetTexts[i])
  \/ FlightToggle
  \/ \E s \in {"0", ""} : AutoRefreshEdited(s)
  \/ LogFileSet
  \/ \E ts \in StampFields, d \in BatteryDatagrams :
       LoadLine(<<"PDU", ts>> \o d)
  \/ EndOfLog
  \/ ClockTick

SpecBattery == Init /\ [][NextBattery]_vars

\* ------------------------------------------------------------------ the PDU
\* simPDU's reply to the command element; value is the current it draws for
\* a STATUS.  A command with too few elements raises IndexError, which the
\* simulator swallows: it sends nothing.
HasReply(element) ==
  IF element[1] = "SETSRVC" THEN Len(element) >= 3
  ELSE IF element[1] = "STATUS" THEN Len(element) >= 2
  ELSE IF element[1] = "SETIP" THEN Len(element) >= 5
  ELSE IF element[1] = "SETPORT" THEN Len(element) >= 2
  ELSE TRUE

return_packet(element, value) ==
  IF element[1] = "SETSRVC" THEN <<"SRVCSET", element[2], element[3]>>
  ELSE IF element[1] = "STATUS" THEN <<"STATUS", element[2], value>>
  ELSE IF element[1] = "SETIP"
    THEN <<"IPSET", element[2], element[3], element[4], element[5]>>
  ELSE IF element[1] = "SETPORT" THEN <<"PORTSET", element[2]>>
  ELSE IF element[1] = "RESET" THEN <<"Resetting">>
  ELSE <<"CMDERROR">>

\* The PDU's outputs after the command: SETSRVC,serv_id,0/1 sets the output
\* of the service.
PduOutputs(element) ==
  IF /\ element[1] = "SETSRVC"
     /\ Len(element) >= 3
     /\ isdigit(element[2])
     /\ int(element[2]) >= 1
     /\ int(element[2]) <= 6
  THEN [pdu_on EXCEPT ![int(element[2]) - 1] = (element[3] = "1")]
  ELSE pdu_on

\* The currents simPDU draws: uniform(0.5, 1.0), to three decimals.
SimAmps == {"0.500", "1.000"}

\* The PDU receives the oldest command in flight, acts on it and replies.
PduStep(value) ==
  /\ to_pdu # <<>>
  /\ Len(from_pdu) < MaxWire
  /\ LET element == Head(to_pdu)
     IN /\ pdu_on' = PduOutputs(element)
        /\ from_pdu' = IF HasReply(element)
                       THEN Append(from_pdu, return_packet(element, value))
                       ELSE from_pdu
  /\ to_pdu' = Tail(to_pdu)
  /\ request' = NoRequest
  /\ raw_packet' = <<>>
  /\ event' = ""
  /\ UNCHANGED <<in_flight, output, battery, group1, group2, window, now,
                 start,
                 is_first_refresh_done, values, rx, sent, warnings, loading,
                 count, datagrams, proc, session_start, sampled>>

\* The datagrams of an iteration of the loop: the commands it sent travel
\* to the PDU, and the reply it read, if any, has left the socket.
Wired(is_read) ==
  /\ Len(to_pdu) + Len(sent') <= MaxWire
  /\ to_pdu' = to_pdu \o sent'
  /\ from_pdu' = IF is_read THEN Tail(from_pdu) ELSE from_pdu
  /\ pdu_on' = pdu_on

\* The operator presses the toggle or the refresh button of service c.
PressToggle(c) == ServiceToggle(c) /\ Wired(FALSE)

PressRefresh(c) == ServiceRefresh(c) /\ Wired(FALSE)

\* The loop's timeout event: the socket holds the PDU's oldest reply, or
\* nothing.
TimeoutReply == from_pdu # <<>> /\ Timeout(Head(from_pdu)) /\ Wired(TRUE)

TimeoutNoData == Timeout(NoData) /\ Wired(FALSE)

\* Services whose buttons the operator presses.
Pressed == {S1, S6}

\* Lines of a log file of an earlier session: replies of the PDU.
CommandLogLines ==
  {<<"PDU", isoformat(0), "SRVCSET", ServiceText(S1), s>> : s \in {"0", "1"}}

\* The GUI may start while outputs of the PDU are on.
InitCommands ==
  /\ InitController
  /\ values.AUTOREFRESH = ""
  /\ pdu_on \in [Services -> BOOLEAN]
  /\ \A c \in Services \ Pressed : ~pdu_on[c]
  /\ to_pdu = <<>>
  /\ from_pdu = <<>>

\* The commands of the service buttons, with the PDU that replies to them.
NextCommands ==
  \/ \E c \in Pressed : PressToggle(c)
  \/ PressRefresh(S1)
  \/ \E value \in SimAmps : PduStep(value)
  \/ TimeoutReply
  \/ TimeoutNoData
  \/ LogFileSet
  \/ \E line \in CommandLogLines : LoadLine(line)
  \/ EndOfLog
  \/ ClockTick

SpecCommands == InitCommands /\ [][NextCommands]_vars

\* ------------------------------------------------------- the auto refresh
\* The auto-refresh timer: the loop with the operator editing the delay
\* and toggling the flight, the clock running longer, and nobody listening
\* to the commands.
TimerDatagrams ==
  {<<"STATUS", "1", "0.500">>,
   <<"EVENT", "START_FLIGHT">>, <<"EVENT", "END_FLIGHT">>}

NextTimer ==
  \/ \E d \in TimerDatagrams \cup {NoData} : TimeoutAlone(d)
  \/ \E s \in {"0", "1", "2", ""} : AutoRefreshEdited(s)
  \/ FlightToggle
  \/ RefreshAll /\ NoPdu
  \/ Tick(MaxTimerTime)

SpecTimer == Init /\ [][NextTimer]_vars

\* -------------------------------------------------------- the flight session
\* The flight session: the loop with the flight toggle, the service
\* buttons, the timer, datagrams of every header on the socket and a log
\* of events and replies; nobody listens to the commands.
SessionDatagrams ==
  {<<"STATUS", "1", "0.500">>, <<"SRVCSET", "1", "1">>,
   <<"EVENT", "START_FLIGHT">>, <<"EVENT", "END_FLIGHT">>}

SessionLogLines ==
  {<<"PDU", ts>> \o d : ts \in {"T1", "T2"}, d \in SessionDatagrams}
  \cup {<<"GND", ts, "EVENT", n>> :
          ts \in {"T1", "T2"}, n \in {"START_FLIGHT", "END_FLIGHT"}}

NextSession ==
  \/ \E d \in SessionDatagrams \cup {NoData} : TimeoutAlone(d)
  \/ FlightToggle
  \/ ServiceToggle(S1) /\ NoPdu
  \/ ServiceRefresh(S1) /\ NoPdu
  \/ RefreshAll /\ NoPdu
  \/ \E s \in {"0", ""} : AutoRefreshEdited(s)
  \/ LogFileSet
  \/ \E line \in SessionLogLines : LoadLine(line)
  \/ EndOfLog
  \/ ClockTick

SpecSession == Init /\ [][NextSession]_vars

\* ------------------------------------------------------- datagrams get lost
\* UDP loses a command on its way to the PDU, or a reply on its way back.
Lost ==
  /\ request' = NoRequest
  /\ raw_packet' = <<>>
  /\ event' = ""
  /\ UNCHANGED <<in_flight, output, battery, group1, group2, window, now,
                 start, is_first_refresh_done, values, rx, sent, warnings,
                 loading, count, datagrams, proc, session_start, sampled,
                 pdu_on>>

LoseCommand ==
  /\ to_pdu # <<>>
  /\ to_pdu' = Tail(to_pdu)
  /\ from_pdu' = from_pdu
  /\ Lost

LoseReply ==
  /\ from_pdu # <<>>
  /\ from_pdu' = Tail(from_pdu)
  /\ to_pdu' = to_pdu
  /\ Lost

\* REFRESH ALL pressed: the commands that find no room on the way to the
\* PDU are lost.
PressRefreshAll ==
  /\ RefreshAll
  /\ to_pdu' = SubSeq(to_pdu \o sent', 1, MaxWire)
  /\ UNCHANGED <<from_pdu, pdu_on>>

\* The GUI and the PDU start with every output off, the auto refresh unset.
InitLossy == Init /\ values.AUTOREFRESH = ""

NextLossy ==
  \/ PressToggle(S1)
  \/ PressRefresh(S1)
  \/ PressRefreshAll
  \/ \E value \in SimAmps : PduStep(value)
  \/ LoseCommand
  \/ LoseReply
  \/ TimeoutReply
  \/ TimeoutNoData
  \/ ClockTick

SpecLossy == InitLossy /\ [][NextLossy]_vars

\* ------------------------------------------------------------------ groups
\* The groups: the loop with the operator ticking the checkboxes of
\* services 1 and 6 and typing limits, replies for the two services, and a
\* log of an earlier session that holds a sample of each.
GroupDatagrams ==
  {<<"STATUS", "1", "0.500">>, <<"STATUS", "1", "8.100">>}

GroupLogLines ==
  {<<"PDU", "T1", "STATUS", "1", "0.500">>,
   <<"PDU", "T1", "STATUS", "6", "1.000">>}

InitGroups == Init /\ values.AUTOREFRESH = ""

NextGroups ==
  \/ \E d \in GroupDatagrams \cup {NoData} :
       TimeoutWithin(d, MaxGroupDatagrams) /\ NoPdu
  \/ \E c \in {S1, S6} : GroupClicked("GR1", c)
  \/ GroupClicked("GR2", S1)
  \/ \E i \in 1..Len(LimitTexts) : LimitTyped("GR1_LIMIT_WH", LimitTexts[i])
  \/ \E s \in {"0", "0.07"} : LimitTyped("GR2_LIMIT_WH", s)
  \/ LogFileSet
  \/ \E line \in GroupLogLines : LoadLine(line)
  \/ EndOfLog
  \/ ClockTick

SpecGroups == InitGroups /\ [][NextGroups]_vars

\* ------------------------------------------------------- the other headers
\* The replies the PDU sends that are neither SRVCSET nor STATUS, a header
\* it does not have, and an empty datagram; a STATUS reply and the flight
\* toggle give the channels and the session a state to keep.
InertDatagrams ==
  {<<"IPSET", "192", "2", "104", "200">>, <<"PORTSET", "50000">>,
   <<"Resetting">>, <<"CMDERROR">>, <<"EVENT", "START_FLIGHT">>,
   <<"HELLO", "1", "1.000">>, <<"">>}

InertLogLines ==
  {<<"PDU", ts>> \o d : ts \in {"T1", "bad"}, d \in InertDatagrams}

NextInert ==
  \/ \E d \in InertDatagrams \cup {<<"STATUS", "1", "0.500">>, NoData} :
       TimeoutAlone(d)
  \/ FlightToggle
  \/ LogFileSet
  \/ \E line \in InertLogLines : LoadLine(line)
  \/ EndOfLog
  \/ ClockTick

SpecInert == InitLossy /\ [][NextInert]_vars

\* ------------------------------------------------------ commands of anyone
\* The PDU with commands of every kind arriving at its socket, complete
\* and cut short, and the controller reading the replies.
PduCommands ==
  {<<"SETSRVC", "1", "1">>, <<"SETSRVC", "1">>,
   <<"STATUS", "1">>, <<"STATUS">>,
   <<"SETIP", "192", "2", "104", "200">>, <<"SETIP", "192", "2">>,
   <<"SETPORT", "50000">>, <<"SETPORT">>,
   <<"RESET">>, <<"HELLO">>}

CommandArrives(element) ==
  /\ Len(to_pdu) < MaxWire
  /\ to_pdu' = Append(to_pdu, element)
  /\ from_pdu' = from_pdu
  /\ Lost

NextPdu ==
  \/ \E element \in PduCommands : CommandArrives(element)
  \/ \E value \in SimAmps : PduStep(value)
  \/ TimeoutReply
  \/ TimeoutNoData
  \/ LoseReply
  \/ ClockTick

SpecPdu == InitLossy /\ [][NextPdu]_vars

\* --------------------------------------------------------------- the replay
\* A session and the replay of a log: the replies a session receives, one
\* of them with a current that is no number and one that ends in a new
\* line, and the lines Logger.rx wrote for them in an earlier session.
ReplayDatagrams ==
  {<<"STATUS", "1", "0.500">>, <<"STATUS", "1", "abc">>,
   <<"SRVCSET", "1", "1">>, <<"SRVCSET", "1", "1\n">>,
   <<"SRVCSET", "1", "0">>, <<"CMDERROR">>}

ReplayLogLines ==
  {<<"PDU", ts>> \o d : ts \in {"T1", "T2"}, d \in ReplayDatagrams}

NextReplay ==
  \/ \E d \in ReplayDatagrams \cup {NoData} : TimeoutAlone(d)
  \/ LogFileSet
  \/ \E line \in ReplayLogLines : LoadLine(line)
  \/ EndOfLog
  \/ ClockTick

SpecReplay == InitLossy /\ [][NextReplay]_vars

\* The session that takes replies of the PDU for two services, in any
\* order, on the ground and in flight.
CommuteDatagrams ==
  {<<"STATUS", "1", "0.500">>, <<"STATUS", "6", "1.000">>,
   <<"SRVCSET", "1", "1">>, <<"SRVCSET", "6", "1">>}

NextCommute ==
  \/ \E d \in CommuteDatagrams \cup {NoData} :
       TimeoutWithin(d, MaxGroupDatagrams) /\ NoPdu
  \/ FlightToggle
  \/ ClockTick

SpecCommute == InitLossy /\ [][NextCommute]_vars

\* The live session whose socket receives the texts of the flight events,
\* bare and dressed as lines of the log, among the replies of the PDU.
SocketDatagrams ==
  {<<"EVENT", "START_FLIGHT">>, <<"EVENT", "END_FLIGHT">>,
   <<"GND", isoformat(1), "EVENT", "START_FLIGHT">>,
   <<"GND", isoformat(1), "EVENT", "END_FLIGHT">>,
   <<"STATUS", "1", "0.500">>}

NextSocket ==
  \/ \E d \in SocketDatagrams \cup {NoData} :
       TimeoutWithin(d, MaxGroupDatagrams) /\ NoPdu
  \/ FlightToggle
  \/ \E s \in {"0", ""} : AutoRefreshEdited(s)
  \/ ClockTick

SpecSocket == InitLossy /\ [][NextSocket]_vars

\* ------------------------------------------------------------------ claims
\* The step took a STATUS sample for service c.
SampleStep(c) == sampled'[c].n = sampled[c].n + 1

\* C1: two STATUS samples on a service, with currents a1, a2 at times
\* t1 < t2 and none before, leave accumulated_Wh at a2 * (t2 - t1) / 3600 *
\* nominal_voltage.
C1_TwoSamples ==
  \A c \in Services :
    (sampled[c].n = 2 /\ sampled[c].first < output.last_update_time[c])
      => output.accumulated_Wh[c] =
           Energy(output.current[c],
                  output.last_update_time[c] - sampled[c].first)

\* C2: a STATUS sample whose timestamp is not later than the service's set
\* last_update_time leaves accumulated_Wh unchanged.
C2_NoBackwardEnergy ==
  [][\A c \in Services :
       (/\ SampleStep(c)
        /\ output.last_update_time[c] > 0
        /\ output'.last_update_time[c] <= output.last_update_time[c])
         => output'.accumulated_Wh[c] = output.accumulated_Wh[c]]_vars

\* C3: accumulated_Wh of the six services and of the heater never decreases
\* from one step to the next, so it is never negative.
C3_Monotone ==
  /\ [][\A i \in Slots :
          output'.accumulated_Wh[i] >= output.accumulated_Wh[i]]_vars
  /\ [](\A i \in Slots : output.accumulated_Wh[i] >= 0)

\* C4: the heater is credited only for intervals inside a flight session:
\* whenever its accumulated_Wh grows, the interval credited began no earlier
\* than the start of the session.
C4_NoIdleCredit ==
  [][output'.accumulated_Wh[HEATERS] > output.accumulated_Wh[HEATERS]
       => output.last_update_time[HEATERS] >= session_start]_vars

\* C5: a start of flight at instant at, from idle, sets in_flight, sets the
\* heater's last_update_time to at and leaves its accumulated_Wh unchanged,
\* by the toggle button and by a START_FLIGHT event alike.
C5_StartArmsHeater ==
  [][(request'.kind = "START" /\ ~in_flight)
       => /\ in_flight'
          /\ output'.last_update_time[HEATERS] = request'.at
          /\ output'.accumulated_Wh[HEATERS] =
               output.accumulated_Wh[HEATERS]]_vars

\* C6: an end of flight at instant at, in flight with the heater armed,
\* adds heaters_consumption * (at - last_update_time) / 3600 *
\* nominal_voltage to the heater's accumulated_Wh, then zeroes its
\* last_update_time and leaves the session idle, by the toggle button and
\* by an END_FLIGHT event alike.
C6_EndIntegrates ==
  [][(request'.kind = "END" /\ in_flight
        /\ output.last_update_time[HEATERS] > 0)
       => /\ ~in_flight'
          /\ output'.last_update_time[HEATERS] = 0
          /\ output'.accumulated_Wh[HEATERS] =
               output.accumulated_Wh[HEATERS]
               + Energy(heaters_consumption,
                        request'.at - output.last_update_time[HEATERS])]_vars

\* C7: a start of flight asked for while in flight is a no-op: it changes
\* neither the session nor the heater's last_update_time and accumulated_Wh
\* (the claim adds that it is reported; the formula states the no-op).
C7_StartInFlightNoOp ==
  [][(request'.kind = "START" /\ in_flight)
       => /\ in_flight'
          /\ output'.last_update_time[HEATERS] =
               output.last_update_time[HEATERS]
          /\ output'.accumulated_Wh[HEATERS] =
               output.accumulated_Wh[HEATERS]]_vars

\* C8: an end of flight asked for while idle is rejected: it changes neither
\* the session nor the heater's last_update_time and accumulated_Wh (the
\* claim adds that it is reported; the formula states the rejection).
C8_EndIdleNoOp ==
  [][(request'.kind = "END" /\ ~in_flight)
       => /\ ~in_flight'
          /\ output'.last_update_time[HEATERS] =
               output.last_update_time[HEATERS]
          /\ output'.accumulated_Wh[HEATERS] =
               output.accumulated_Wh[HEATERS]]_vars

\* C9: while the session is idle the heater's last_update_time is zero.
C9_IdleUnarmed == ~in_flight => output.last_update_time[HEATERS] = 0

\* C10: the remaining Wh a refresh computes is max_wh minus the
\* accumulated_Wh of the six services and the heater and the offset typed
\* in the field, negative offsets included.
SumWh(out) ==
  out.accumulated_Wh[0] + out.accumulated_Wh[1] + out.accumulated_Wh[2]
  + out.accumulated_Wh[3] + out.accumulated_Wh[4] + out.accumulated_Wh[5]
  + out.accumulated_Wh[HEATERS]

C10_RemainingWh ==
  [][(datagrams' = datagrams + 1 /\ rx' = "parsed")
       => battery'.progress_wh =
            max_wh * WhScale
            - (SumWh(output') + OffsetWh(values'.OFFSET_WH) * WhScale)]_vars

\* The latest step gave parse_telemetry a packet from the PDU with this
\* header and at least n fields.
FromPdu(p, header, n) ==
  /\ Len(p) >= n
  /\ p[1] = "PDU"
  /\ p[3] = header

\* The service-id field names one of the services 1..6.
IsServiceId(s) == isdigit(s) /\ int(s) >= 1 /\ int(s) <= 6

Warned(msg) == \E i \in 1..Len(warnings') : warnings'[i] = msg

C14_SrvcsetSets ==
  [][(FromPdu(raw_packet', "SRVCSET", 5) /\ IsServiceId(raw_packet'[4]))
       => output'.is_on =
            [output.is_on EXCEPT ![int(raw_packet'[4]) - 1] =
               (raw_packet'[5] = "1")]]_vars

C14_Witness ==
  /\ FromPdu(raw_packet, "SRVCSET", 5)
  /\ raw_packet[4] = "1"
  /\ raw_packet[5] = "0"
  /\ ~output.is_on[S1]
  /\ rx = "parsed"
  /\ count = 1

\* C15: when is_on of a service differs from the PDU's output, one toggle
\* whose SETSRVC command reaches the PDU and whose SRVCSET reply reaches the
\* controller, nothing else for the service being in flight, leaves is_on
\* equal to the PDU's output.
InFlightFor(c) ==
  \/ \E i \in 1..Len(to_pdu') :
       to_pdu'[i][1] = "SETSRVC" /\ to_pdu'[i][2] = ServiceText(c)
  \/ \E i \in 1..Len(from_pdu') :
       from_pdu'[i][1] = "SRVCSET" /\ from_pdu'[i][2] = ServiceText(c)

C15_Resync ==
  [][\A c \in Services :
       (/\ datagrams' = datagrams + 1
        /\ FromPdu(raw_packet', "SRVCSET", 5)
        /\ raw_packet'[4] = ServiceText(c)
        /\ ~InFlightFor(c))
         => output'.is_on[c] = pdu_on'[c]]_vars

C15_Witness ==
  /\ datagrams = 1
  /\ raw_packet = LogRx(<<"SRVCSET", "1", "0">>)
  /\ ~output.is_on[S1]
  /\ ~pdu_on[S1]
  /\ count = 1
  /\ to_pdu = <<>>
  /\ from_pdu = <<>>

\* C16: the toggle button of service c sends exactly SETSRVC,c,0 when is_on
\* is true and SETSRVC,c,1 when it is false, and leaves is_on as it is;
\* is_on changes only in a step that parses a SRVCSET reply.
C16_ToggleCommand ==
  [][/\ \A c \in Services :
          event' = ToggleEvent(c)
            => /\ sent' = << <<"SETSRVC", ServiceText(c),
                               IF output.is_on[c] THEN "0" ELSE "1">> >>
               /\ output'.is_on = output.is_on
     /\ output'.is_on # output.is_on
          => FromPdu(raw_packet', "SRVCSET", 5)]_vars

C16_Witness ==
  /\ event = ToggleEvent(S1)
  /\ sent = << <<"SETSRVC", "1", "0">> >>
  /\ output.is_on[S1]

\* C17: a packet whose source is not PDU changes no service's is_on,
\* current, last_update_time or accumulated_Wh, whatever its header; it
\* changes the flight session or the heater only when it is an EVENT named
\* START_FLIGHT or END_FLIGHT.
C17_ForeignSource ==
  [][(Len(raw_packet') >= 3 /\ raw_packet'[1] # "PDU")
       => /\ output'.is_on = output.is_on
          /\ output'.current = output.current
          /\ \A c \in Services :
               /\ output'.last_update_time[c] = output.last_update_time[c]
               /\ output'.accumulated_Wh[c] = output.accumulated_Wh[c]
          /\ (in_flight' # in_flight \/ output' # output)
               => /\ Len(raw_packet') >= 4
                  /\ raw_packet'[3] = "EVENT"
                  /\ raw_packet'[4] \in {"START_FLIGHT", "END_FLIGHT"}]_vars

C17_Witness ==
  /\ raw_packet = <<"GND", isoformat(2), "STATUS", "1", "0.500">>
  /\ output.last_update_time[S1] = 1
  /\ output.accumulated_Wh[S1] = 0

\* C18: no packet, received or replayed from a log file, ends the program
\* with an error.
C18_NoError == proc = "running"

\* C19: a packet of at least 3 fields whose timestamp does not decode is
\* still dispatched on its header and arguments, with the instant of the
\* call as its time and a warning: a SRVCSET sets is_on, a STATUS updates
\* the service.
C19_BadTimestamp ==
  [][(Len(raw_packet') >= 3 /\ ~IsIso(raw_packet'[2]))
       => /\ Warned("ERROR: timestamp could not be decoded")
          /\ (FromPdu(raw_packet', "SRVCSET", 5)
                /\ IsServiceId(raw_packet'[4]))
               => output'.is_on[int(raw_packet'[4]) - 1]
                    = (raw_packet'[5] = "1")
          /\ IsSample(raw_packet')
               => /\ output'.current[int(raw_packet'[4]) - 1]
                       = float(raw_packet'[5])
                  /\ output'.last_update_time[int(raw_packet'[4]) - 1] = now
          /\ loading
               => output' = OutputOf(parse_telemetry(
                     Globals, [raw_packet' EXCEPT ![2] = isoformat(now)],
                     now))]_vars

C19_Witness ==
  /\ raw_packet = <<"PDU", "bad", "STATUS", "1", "1.000">>
  /\ output.last_update_time[S1] = 2
  /\ output.accumulated_Wh[S1] = Energy(10, 1)

\* C20: the first STATUS sample of a service adds nothing to accumulated_Wh
\* and arms the service at its own time, whatever that time is, 0
\* included: the second sample, when later, adds the energy of the
\* interval since the first.
C20_FirstSampleArms ==
  [][\A c \in Services :
       /\ (SampleStep(c) /\ sampled[c].n = 0)
            => /\ output'.accumulated_Wh[c] = output.accumulated_Wh[c]
               /\ output'.last_update_time[c] = sampled'[c].first
       /\ (/\ SampleStep(c)
           /\ sampled[c].n = 1
           /\ output'.last_update_time[c] > sampled[c].first)
            => output'.accumulated_Wh[c] =
                 output.accumulated_Wh[c]
                 + Energy(output'.current[c],
                          output'.last_update_time[c] - sampled[c].first)]_vars

\* The iteration of the step handled the timeout event.
TimerStep == event' = "__TIMEOUT__"

C22_ZeroDisables ==
  [][(TimerStep /\ isdigit(values.AUTOREFRESH)
                /\ int(values.AUTOREFRESH) <= 0)
       => /\ sent' = <<>>
          /\ request'.kind = "none"
               => /\ output'.last_update_time[HEATERS]
                       = output.last_update_time[HEATERS]
                  /\ output'.accumulated_Wh[HEATERS]
                       = output.accumulated_Wh[HEATERS]]_vars

\* C23: when the auto-refresh fires at the instant now, in an iteration
\* that parses no flight event: in flight with the heater's
\* last_update_time set (> 0), heaters_consumption * (now - last_update_time)
\* / 3600 * nominal_voltage is added to the heater's accumulated_Wh when
\* the interval is positive, nothing otherwise, and last_update_time
\* becomes now; out of flight both are unchanged.
C23_HeaterTick ==
  [][(TimerStep /\ sent' # <<>> /\ request'.kind = "none")
       => LET last == output.last_update_time[HEATERS]
              acc == output.accumulated_Wh[HEATERS]
          IN /\ (in_flight /\ last > 0)
                  => /\ output'.last_update_time[HEATERS] = now
                     /\ output'.accumulated_Wh[HEATERS] =
                          acc + (IF now - last > 0
                                 THEN heaters_consumption * (now - last)
                                        * nominal_voltage
                                 ELSE 0)
             /\ ~in_flight
                  => /\ output'.last_update_time[HEATERS] = last
                     /\ output'.accumulated_Wh[HEATERS] = acc]_vars

C23_Witness ==
  /\ event = "__TIMEOUT__"
  /\ Len(sent) = 6
  /\ request.kind = "none"
  /\ in_flight
  /\ values.AUTOREFRESH = "2"
  /\ output.last_update_time[HEATERS] = now
  /\ output.accumulated_Wh[HEATERS] = heaters_consumption * 2 * nominal_voltage

\* C28: a flight start leaves the heater's accumulated_Wh as it was, and
\* a flight end asked at the instant of the start of the flight that is on
\* leaves it as it was too and ends the flight.
C28_StartThenEnd ==
  [][/\ request'.kind = "START"
          => output'.accumulated_Wh[HEATERS] = output.accumulated_Wh[HEATERS]
     /\ (in_flight /\ request'.kind = "END" /\ request'.at = session_start)
          => /\ ~in_flight'
             /\ output'.accumulated_Wh[HEATERS]
                  = output.accumulated_Wh[HEATERS]]_vars

\* The step parsed a packet whose source is the PDU.
PduPacketStep == raw_packet' # <<>> /\ raw_packet'[1] = "PDU"

\* C29: in_flight is False at the start; every flight toggle flips it; a
\* step that parses a packet of the PDU, handles a service toggle, a
\* service refresh or the refresh of all, or handles the timeout event
\* leaves it as it was.
C29_Session ==
  /\ ~in_flight
  /\ [][/\ event' = "-FLIGHT_TOGGLE-" => in_flight' = ~in_flight
        /\ (\/ PduPacketStep
            \/ TimerStep
            \/ event' \in {ToggleEvent(S1), RefreshEvent(S1), "-REFRESHALL-"})
             => in_flight' = in_flight]_vars

C29_Witness ==
  /\ event = "-FLIGHT_TOGGLE-"
  /\ request.kind = "END"
  /\ ~in_flight
  /\ session_start = 1
  /\ now = 2

\* C30: a step that handles a service toggle or a service refresh sends
\* exactly one command, the one of its button; an iteration of the loop
\* sends commands only when it handles a button, or a timeout event whose
\* auto-refresh delay has expired; and a step that is no iteration of the
\* loop (a datagram lost, the PDU at work, the clock) sends nothing and
\* changes nothing the controller holds.
C30_FireAndForget ==
  [][/\ event' = ToggleEvent(S1)
          => /\ Len(sent') = 1
             /\ sent'[1][1] = "SETSRVC" /\ sent'[1][2] = "1"
     /\ event' = RefreshEvent(S1) => sent' = << <<"STATUS", "1">> >>
     /\ (event' # "" /\ sent' # <<>>)
          => \/ event' \in {ToggleEvent(S1), RefreshEvent(S1), "-REFRESHALL-"}
             \/ TimerStep /\ AutoRefreshDue
     /\ event' = ""
          => UNCHANGED <<in_flight, output, battery, group1, group2, window,
                         start, is_first_refresh_done, values, rx, sent,
                         warnings, loading, count, datagrams, proc>>]_vars

\* The reply to the toggle of service 1 was lost: the output is on, the GUI
\* shows it off, and nothing is on its way.
C30_Witness ==
  /\ pdu_on[S1]
  /\ ~output.is_on[S1]
  /\ to_pdu = <<>>
  /\ from_pdu = <<>>
  /\ event = "__TIMEOUT__"
  /\ sent = <<>>

\* The step called refresh_telemetry_stats_on_gui: it parsed a datagram,
\* or it is the first iteration of the loop.
RefreshStep ==
  \/ TimerStep /\ rx' = "parsed"
  \/ ~is_first_refresh_done /\ is_first_refresh_done'

\* The channels at the last call of the step: the first iteration calls
\* before it handles its event, a datagram is parsed before the call.
OutputAtRefresh ==
  IF TimerStep /\ rx' = "parsed" THEN output' ELSE output

RECURSIVE SumOver(_, _)
SumOver(f, members) ==
  IF members = {} THEN 0
  ELSE LET c == CHOOSE x \in members : TRUE
       IN f[c] + SumOver(f, members \ {c})

\* C24: after every call group1 and group2 hold the sum of the currents
\* and the sum of accumulated_Wh of the services whose checkbox of the
\* group is ticked at the call, whatever they held before; a step without
\* a call, a tick of a checkbox included, leaves them as they were.
C24_GroupSums ==
  [][IF RefreshStep
     THEN /\ group1' = [A |-> SumOver(OutputAtRefresh.current, values'.GR1),
                        Wh |-> SumOver(OutputAtRefresh.accumulated_Wh,
                                       values'.GR1)]
          /\ group2' = [A |-> SumOver(OutputAtRefresh.current, values'.GR2),
                        Wh |-> SumOver(OutputAtRefresh.accumulated_Wh,
                                       values'.GR2)]
     ELSE UNCHANGED <<group1, group2>>]_vars

\* Service 1 is in both groups and has used energy, service 6 is in group 1
\* only and draws current.
C24_Witness ==
  /\ event = "__TIMEOUT__"
  /\ rx = "parsed"
  /\ values.GR1 = {S1, S6}
  /\ values.GR2 = {S1}
  /\ output.accumulated_Wh[S1] > 0
  /\ output.current[S6] > 0
  /\ group1 = [A |-> output.current[S1] + output.current[S6],
               Wh |-> output.accumulated_Wh[S1]]
  /\ group2 = [A |-> output.current[S1], Wh |-> output.accumulated_Wh[S1]]

\* The limit of a group at the call of the step, in Wh * WhScale.
Limit1 == limit(values'.GR1_LIMIT_WH)

Limit2 == limit(values'.GR2_LIMIT_WH)

\* C25: after every call, a group whose limit is > 0 shows red (warn) when
\* limit - Wh <= 0.1 * limit and white (ok) when limit - Wh > 0.1 * limit.
C25_LimitWarn ==
  [][RefreshStep
       => /\ Limit1 > 0
               => window'.GR1_WH =
                    IF 10 * (Limit1 - group1'.Wh) <= Limit1
                    THEN "red" ELSE "white"
          /\ Limit2 > 0
               => window'.GR2_WH =
                    IF 10 * (Limit2 - group2'.Wh) <= Limit2
                    THEN "red" ELSE "white"]_vars

\* Group 1 has exactly a tenth of its limit left and shows red; group 2,
\* with the same limit and more left, shows white.
C25_Witness ==
  /\ event = "__TIMEOUT__"
  /\ rx = "parsed"
  /\ values.GR1_LIMIT_WH = "0.07"
  /\ 10 * (limit("0.07") - group1.Wh) = limit("0.07")
  /\ window.GR1_WH = "red"
  /\ values.GR2_LIMIT_WH = "0.07"
  /\ group2.Wh = 0
  /\ window.GR2_WH = "white"

PercentOfCapacity == (max_wh * WhScale) \div 100

\* The value given to the progress bar is the percent shown, clamped to
\* 0 .. 100.
BarClamped ==
  window'.BATTERY_PROGRESS[1] =
    IF window'.BATTERY_PERCENT[1] > 100 THEN 100
    ELSE IF window'.BATTERY_PERCENT[1] < 0 THEN 0
    ELSE window'.BATTERY_PERCENT[1]

InertStep ==
  /\ Len(raw_packet') >= 3
  /\ raw_packet'[1] = "PDU"
  /\ raw_packet'[3] \notin {"SRVCSET", "STATUS"}

\* C31 as stated: a packet of the PDU whose header is neither SRVCSET nor
\* STATUS leaves the services, the heater and the flight session as they
\* were and raises no warning.
C31_InertHeader ==
  [][InertStep
       => /\ output' = output
          /\ in_flight' = in_flight
          /\ warnings' = <<>>]_vars

\* C31: a packet of the PDU whose header is neither SRVCSET nor STATUS
\* leaves the services, the heater and the flight session as they were;
\* it raises no warning when its timestamp decodes, and the warning of the
\* timestamp alone when it does not.
C31_InertHeaderStamped ==
  [][InertStep
       => /\ output' = output
          /\ in_flight' = in_flight
          /\ warnings' = IF IsIso(raw_packet'[2]) THEN <<>>
                         ELSE <<"ERROR: timestamp could not be decoded">>]_vars

\* A CMDERROR reply of a log was parsed in flight after a sample of
\* service 1.
C31_Witness ==
  /\ raw_packet = <<"PDU", "T1", "CMDERROR">>
  /\ warnings = <<>>
  /\ in_flight
  /\ output.current[S1] = 5

\* The step parsed a STATUS reply of the PDU taken as a sample of service
\* c, or a SRVCSET reply of the PDU that names service c.
AcceptedStatus(c) ==
  IsSample(raw_packet') /\ int(raw_packet'[4]) - 1 = c

AcceptedSrvcset(c) ==
  /\ FromPdu(raw_packet', "SRVCSET", 5)
  /\ IsServiceId(raw_packet'[4])
  /\ int(raw_packet'[4]) - 1 = c

\* The iteration of the step did not fire the auto refresh, whose heater
\* accumulation comes before the packet is read.
NoHeaterTick == ~(TimerStep /\ AutoRefreshDue)

\* C32: an accepted STATUS reply of the PDU for service c leaves is_on of
\* every service and the current, last_update_time and accumulated_Wh of
\* every other service as they were; an accepted SRVCSET reply for c
\* leaves every current, last_update_time and accumulated_Wh and the
\* is_on of every other service as they were; neither changes the
\* heater's last_update_time or accumulated_Wh, or in_flight.
C32_OnlyItsChannel ==
  [][\A c \in Services :
       /\ (AcceptedStatus(c) /\ NoHeaterTick)
            => /\ output'.is_on = output.is_on
               /\ \A o \in Slots \ {c} :
                    /\ output'.last_update_time[o]
                         = output.last_update_time[o]
                    /\ output'.accumulated_Wh[o] = output.accumulated_Wh[o]
               /\ \A o \in Services \ {c} :
                    output'.current[o] = output.current[o]
               /\ in_flight' = in_flight
       /\ (AcceptedSrvcset(c) /\ NoHeaterTick)
            => /\ output'.current = output.current
               /\ output'.last_update_time = output.last_update_time
               /\ output'.accumulated_Wh = output.accumulated_Wh
               /\ \A o \in Services \ {c} :
                    output'.is_on[o] = output.is_on[o]
               /\ in_flight' = in_flight]_vars

\* A sample of service 1 was taken in flight, the heater armed at an
\* earlier instant, service 6 on.
C32_Witness ==
  /\ IsSample(raw_packet)
  /\ raw_packet[4] = "1"
  /\ output.last_update_time[S1] = 2
  /\ in_flight
  /\ output.last_update_time[HEATERS] = 1
  /\ output.is_on[S6]

\* The step parsed a SRVCSET or STATUS reply of the PDU that has its
\* header and fewer than two arguments.
ShortReply(header) ==
  /\ Len(raw_packet') \in 3..4
  /\ raw_packet'[1] = "PDU"
  /\ raw_packet'[3] = header

\* C33: a SRVCSET or STATUS reply of the PDU with one argument or none is
\* reported by the warning of its header and changes nothing of the
\* services, the heater or the flight session.
C33_MissingArguments ==
  [][/\ ShortReply("SRVCSET")
          => Warned("SRVCSET packet error - Too short")
     /\ ShortReply("STATUS")
          => Warned("STATUS packet error - Too short")
     /\ ((ShortReply("SRVCSET") \/ ShortReply("STATUS")) /\ NoHeaterTick)
          => /\ output' = output
             /\ in_flight' = in_flight]_vars

\* A STATUS reply without its value was parsed after a sample of the
\* service.
C33_Witness ==
  /\ raw_packet = <<"PDU", "T2", "STATUS", "1">>
  /\ warnings = <<"STATUS packet error - Too short">>
  /\ output.last_update_time[S1] = 1
  /\ output.current[S1] = 10

\* No packet was parsed and the flight was never started.
NothingParsed == datagrams = 0 /\ count = 0 /\ session_start = 0

\* C34: as long as no packet was parsed and the flight not toggled, every
\* service has is_on False, current 0, accumulated_Wh 0 and
\* last_update_time unset (0), the heater has accumulated_Wh 0 and
\* last_update_time unset, and in_flight is False.
C34_InitialState ==
  NothingParsed
    => /\ \A c \in Services :
            /\ ~output.is_on[c]
            /\ output.current[c] = 0
            /\ output.accumulated_Wh[c] = 0
            /\ output.last_update_time[c] = 0
       /\ output.accumulated_Wh[HEATERS] = 0
       /\ output.last_update_time[HEATERS] = 0
       /\ ~in_flight

\* The loop has run, the auto refresh has fired, and nothing was received.
C34_Witness ==
  /\ NothingParsed
  /\ event = "__TIMEOUT__"
  /\ Len(sent) = 6
  /\ now = 2
  /\ ~output.is_on[S1]

\* The PDU took the oldest command off its socket.
PduTook == to_pdu # <<>> /\ to_pdu' = Tail(to_pdu)

\* The command has its keyword and the arguments the keyword needs.
Complete(element, keyword, n) ==
  element[1] = keyword /\ Len(element) >= n

\* C35: the PDU answers every command it receives with exactly one reply:
\* SETSRVC,id,v with SRVCSET,id,v; STATUS,id with STATUS,id and a
\* current; SETIP,a,b,c,d with IPSET,a,b,c,d; SETPORT,p with PORTSET,p;
\* RESET with Resetting; any other command, a keyword without its
\* arguments included, with CMDERROR.
C35_OneReply ==
  [][PduTook
       => LET element == Head(to_pdu)
          IN /\ Len(from_pdu') = Len(from_pdu) + 1
             /\ SubSeq(from_pdu', 1, Len(from_pdu)) = from_pdu
             /\ LET reply == from_pdu'[Len(from_pdu')]
                IN IF Complete(element, "SETSRVC", 3)
                     THEN reply = <<"SRVCSET", element[2], element[3]>>
                   ELSE IF Complete(element, "STATUS", 2)
                     THEN /\ Len(reply) = 3
                          /\ reply[1] = "STATUS"
                          /\ reply[2] = element[2]
                          /\ IsFloat(reply[3])
                   ELSE IF Complete(element, "SETIP", 5)
                     THEN reply = <<"IPSET", element[2], element[3],
                                    element[4], element[5]>>
                   ELSE IF Complete(element, "SETPORT", 2)
                     THEN reply = <<"PORTSET", element[2]>>
                   ELSE IF element[1] = "RESET"
                     THEN reply = <<"Resetting">>
                   ELSE reply = <<"CMDERROR">>]_vars

\* C36: a line that Logger.rx wrote for a datagram, replayed by load_log,
\* leaves every service with the is_on, current, last_update_time and
\* accumulated_Wh that the session which received the datagram gave it
\* from the same state, and the replay goes on.
C36_ReplayStep ==
  [][(loading /\ Len(raw_packet') >= 3 /\ raw_packet'[1] = "PDU"
              /\ IsIso(raw_packet'[2]))
       => LET live == parse_telemetry(Globals, raw_packet',
                                      fromisoformat(raw_packet'[2]))
          IN /\ proc' = "running"
             /\ \A c \in Services :
                  /\ output'.is_on[c] = live.is_on[c]
                  /\ output'.current[c] = live.current[c]
                  /\ output'.last_update_time[c] = live.last_update_time[c]
                  /\ output'.accumulated_Wh[c] = live.accumulated_Wh[c]]_vars

\* Logger.event: the line the flight toggle writes to the log.
LoggedEvent(name) == <<"GND", isoformat(now), "EVENT", name>>

\* C37: the line the flight toggle logs, replayed from the state the
\* toggle was pressed in, gives the in_flight and the heater's
\* accumulated_Wh and last_update_time that the toggle itself gave.
C37_ReplayToggle ==
  [][event' = "-FLIGHT_TOGGLE-"
       => LET replay ==
                parse_telemetry(Globals,
                                LoggedEvent(IF in_flight THEN "END_FLIGHT"
                                            ELSE "START_FLIGHT"),
                                now)
          IN /\ in_flight' = replay.in_flight
             /\ output'.accumulated_Wh[HEATERS]
                  = replay.accumulated_Wh[HEATERS]
             /\ output'.last_update_time[HEATERS]
                  = replay.last_update_time[HEATERS]]_vars

\* Replies of the PDU that parse_telemetry accepts: a STATUS sample or a
\* SRVCSET echo of a service, as the receive path or a log line hands it
\* over.
AcceptedPackets ==
  {<<"PDU", t, "STATUS", i, a>> :
     t \in {isoformat(1), isoformat(2), "bad"}, i \in {"1", "6"},
     a \in {"0.500", "1.000"}}
  \cup {<<"PDU", t, "SRVCSET", i, o>> :
          t \in {isoformat(1), isoformat(2), "bad"}, i \in {"1", "6"},
          o \in {"0", "1"}}

\* The services, the heater and the flight session of two parser states
\* are the same.
SameMetering(a, b) ==
  /\ a.is_on = b.is_on
  /\ a.current = b.current
  /\ a.last_update_time = b.last_update_time
  /\ a.accumulated_Wh = b.accumulated_Wh
  /\ a.in_flight = b.in_flight

\* C38: from every state the session reaches, two accepted replies of the
\* PDU for two different services give the same services, heater and
\* flight session whichever of the two is parsed first.
C38_Commute ==
  \A p \in AcceptedPackets : \A q \in AcceptedPackets :
    p[4] # q[4]
      => SameMetering(
           parse_telemetry(parse_telemetry(Globals, p, now), q, now),
           parse_telemetry(parse_telemetry(Globals, q, now), p, now))

\* Samples of two different services were taken, the first of them with
\* energy accumulated.
C38_Witness ==
  /\ output.last_update_time[S1] > 0
  /\ output.last_update_time[S6] > 0
  /\ IsSample(raw_packet)

\* The iteration of the step read a datagram from the socket.
DatagramStep == event' = "__TIMEOUT__" /\ raw_packet' # <<>>

\* C39: what the loop parses for a datagram is the datagram behind the
\* source PDU and the instant of its reception; whatever the datagram
\* holds, the iteration leaves in_flight as it was and the heater's
\* accumulated_Wh and last_update_time as the same iteration leaves them
\* when the socket is silent.
C39_LiveIsPdu ==
  [][DatagramStep
       => LET silent == IF AutoRefreshDue THEN HeaterTick(output)
                        ELSE output
          IN /\ raw_packet'[1] = "PDU"
             /\ raw_packet'[2] = isoformat(now)
             /\ in_flight' = in_flight
             /\ output'.accumulated_Wh[HEATERS]
                  = silent.accumulated_Wh[HEATERS]
             /\ output'.last_update_time[HEATERS]
                  = silent.last_update_time[HEATERS]]_vars

\* The text of a logged END_FLIGHT event arrived on the socket in flight,
\* the heater armed, and ended nothing.
C39_Witness ==
  /\ event = "__TIMEOUT__"
  /\ Len(raw_packet) = 6
  /\ raw_packet[3] = "GND"
  /\ raw_packet[6] = "END_FLIGHT"
  /\ rx = "parsed"
  /\ in_flight
  /\ output.last_update_time[HEATERS] > 0

====
